---- MODULE Spec2Model ----
(***************************************************************************)
(* Model of the ble-data-struct AD/EIR codecs and of the data type parser  *)
(* (src/src/data_types).  A Vec<u8> is a sequence of naturals 0..255, a    *)
(* Rust index i is the TLA+ index i + 1.  A call that can fault is         *)
(* modelled by a result record whose tag is "Panic".                       *)
(***************************************************************************)
EXTENDS Integers, Sequences, FiniteSets, TLC

VARIABLES
    typ,      \* codec the current codec run is about, "none" when there is none
    x,        \* outcome of <codec>::new(...), or NoVal
    bytes,    \* the Vec<u8> handed to the decoder: x.into() or a raw record
    y,        \* outcome of the decoder applied to bytes, or NoVal
    out,      \* y.into() when y is Ok
    cpc,      \* position of the codec run
    offs,     \* offset handed to from_with_offset, 0 for try_from and from
    fields,   \* what the accessors of x return, or NoVal
    entry,    \* parser entry point in use, "none" when there is none
    buffer,   \* value: &Vec<u8> of DataTypeParseResults::from
    index,    \* index of the scanning loop
    vec,      \* vec: Vec<Vec<u8>> built by the scanning loop (or given)
    results,  \* DataTypeParseResults.results
    rs,       \* the records a concatenated buffer was built from
    spc,      \* position of the parser run
    qtag,     \* data type value handed to the is_<type> predicates
    matches,  \* the AD types whose is_<type>(qtag) is true
    qpc,      \* position of the is_<type> query
    wrec,     \* per worker: the record it dispatches
    wtag,     \* per call frame: the local data_type of DataTypeParseResult::from
    wout,     \* per worker: the DataTypeParseResult it obtained
    wpc       \* per worker: position in DataTypeParseResult::from

vars == <<typ, x, bytes, y, out, cpc, offs, fields, entry, buffer, index, vec,
          results, rs, spc, qtag, matches, qpc, wrec, wtag, wout, wpc>>

-----------------------------------------------------------------------------
(* Bounds of the model.                                                    *)

\* longest short payload (Broadcast_Code, service data tail) drawn as input
MaxCodeLen == 5
\* longest list of UUIDs drawn as input of a list constructor
MaxUuids == 2
\* longest payload of a raw record drawn as decoder input
MaxPayload == 5
\* longest flat buffer drawn as scanner input
MaxBuf == 4
\* most records in a list of records drawn as parser input
MaxRecords == 2

\* largest offset handed to from_with_offset
MaxOffset == 2
\* workers that dispatch a record each at the same time
MaxWorkers == 2

-----------------------------------------------------------------------------
(* Rust primitives.                                                        *)

U8 == 256

Ok(v) == [tag |-> "Ok", v |-> v]
Err(m) == [tag |-> "Err", msg |-> m]
Panic(m) == [tag |-> "Panic", msg |-> m]
NoVal == [tag |-> "None"]

IsOk(r) == r.tag = "Ok"
IsErr(r) == r.tag = "Err"
IsPanic(r) == r.tag = "Panic"

Digit(d) ==
    CASE d = 0 -> "0" [] d = 1 -> "1" [] d = 2 -> "2" [] d = 3 -> "3"
      [] d = 4 -> "4" [] d = 5 -> "5" [] d = 6 -> "6" [] d = 7 -> "7"
      [] d = 8 -> "8" [] d = 9 -> "9"

RECURSIVE ToDecimal(_)
\* format!("{}", n) of an unsigned integer
ToDecimal(n) ==
    IF n < 10 THEN Digit(n) ELSE ToDecimal(n \div 10) \o Digit(n % 10)

\* value[a..b] is inside the vector and well ordered
SliceOk(s, a, b) == a <= b /\ b <= Len(s)

\* value[a..b], defined when SliceOk
Slice(s, a, b) == SubSeq(s, a + 1, b)

\* "a + b" on u8: with overflow checks (debug profile) an overflow faults,
\* without them (release profile) the sum wraps
AddU8(a, b, checks) ==
    IF a + b < U8 THEN Ok(a + b)
    ELSE IF checks THEN Panic("attempt to add with overflow")
    ELSE Ok((a + b) % U8)

\* u16::to_le_bytes / u16::from_le_bytes
U16ToLe(v) == <<v % 256, (v \div 256) % 256>>
U16FromLe(b) == b[1] + 256 * b[2]

\* u32::from_le_bytes
U32FromLe(b) == b[1] + 256 * b[2] + 65536 * b[3] + 16777216 * b[4]

RECURSIVE BitAnd(_, _)
\* a & b on unsigned integers
BitAnd(a, b) ==
    IF a = 0 \/ b = 0 THEN 0
    ELSE (a % 2) * (b % 2) + 2 * BitAnd(a \div 2, b \div 2)

\* slice.windows(w): every run of w consecutive elements, in order
Windows(s, w) ==
    [k \in 1..(IF Len(s) < w THEN 0 ELSE Len(s) - w + 1) |-> SubSeq(s, k, k + w - 1)]

\* iterator.step_by(n): elements 0, n, 2n, ...
StepBy(s, n) == [k \in 1..((Len(s) + n - 1) \div n) |-> s[(k - 1) * n + 1]]

RECURSIVE SeqSum(_)
SeqSum(s) == IF s = <<>> THEN 0 ELSE Head(s) + SeqSum(Tail(s))

RECURSIVE Concat(_)
\* concatenation of a list of vectors
Concat(l) == IF l = <<>> THEN <<>> ELSE Head(l) \o Concat(Tail(l))

\* iterator.flat_map(f).collect(), s being the w-byte vectors f yields in order
FlatMap(s, w) ==
    [i \in 1..(Len(s) * w) |-> s[((i - 1) \div w) + 1][((i - 1) % w) + 1]]

\* all sequences over S of length 0..n
SeqsUpTo(S, n) == UNION {[1..k -> S] : k \in 0..n}

\* the vector of n bytes b
Fill(n, b) == [i \in 1..n |-> b]

-----------------------------------------------------------------------------
(* Broadcast_Code (broadcast_code.rs).                                     *)

BroadcastCode_data_type == 45

BroadcastCode_min_len == 6

BroadcastCode_new(broadcast_code, checks) ==
    LET length == AddU8(1, Len(broadcast_code) % U8, checks)
    IN  IF IsPanic(length) THEN length
        ELSE Ok([length |-> length.v, broadcast_code |-> broadcast_code])

\* BroadcastCode_try_from with the payload sliced one byte short
\* (value[2..length]): what the round trip must tell apart
BroadcastCode_try_from_short(value) ==
    LET len == Len(value)
    IN  IF len < BroadcastCode_min_len
        THEN Err("Invalid data size :" \o ToDecimal(len))
        ELSE LET length == value[1]
             IN  IF ~SliceOk(value, 2, length)
                 THEN Panic("slice index out of range")
                 ELSE Ok([length |-> length,
                          broadcast_code |-> Slice(value, 2, length)])

BroadcastCode_try_from(value) ==
    LET len == Len(value)
    IN  IF len < BroadcastCode_min_len
        THEN Err("Invalid data size :" \o ToDecimal(len))
        ELSE LET length == value[1]
             IN  IF ~SliceOk(value, 2, 1 + length)
                 THEN Panic("slice index out of range")
                 ELSE Ok([length |-> length,
                          broadcast_code |-> Slice(value, 2, 1 + length)])

BroadcastCode_into(self) ==
    <<self.length, BroadcastCode_data_type>> \o self.broadcast_code

\* is_broadcast_code comparing with the data type value next to its own (0x2c)
is_broadcast_code_0x2c(data_type) == BroadcastCode_data_type - 1 = data_type

is_broadcast_code(data_type) == BroadcastCode_data_type = data_type

-----------------------------------------------------------------------------
(* Class of Device (class_of_device.rs).                                   *)

ClassOfDevice_data_type == 13

\* 0x00ffffff
ClassOfDevice_mask == 16777215

ClassOfDevice_new(class_of_device) ==
    Ok([length |-> 4, class_of_device |-> class_of_device])

\* data.push(0) on the caller's vector instead of the copy data[offset..].to_vec()
ClassOfDevice_from_with_offset_caller_data_pushed(data0, offset) ==
    Append(data0, 0)

\* the caller's vector after from_with_offset(&data0, offset): the shadowing
\* let mut data = data[offset..].to_vec() takes the push
ClassOfDevice_from_with_offset_caller_data(data0, offset) ==
    data0

ClassOfDevice_from_with_offset(data0, offset) ==
    IF offset > Len(data0) THEN Panic("slice start out of range")
    ELSE LET data1 == Slice(data0, offset, Len(data0))
         IN  IF Len(data1) = 0 THEN Panic("index out of bounds")
             ELSE LET length == data1[1]
                      data == Append(data1, 0)
                  IN  IF ~SliceOk(data, 2, 6)
                      THEN Panic("slice index out of range")
                      ELSE Ok([length |-> length,
                               class_of_device |->
                                   BitAnd(U32FromLe(Slice(data, 2, 6)),
                                          ClassOfDevice_mask)])

ClassOfDevice_from(data) == ClassOfDevice_from_with_offset(data, 0)

\* 0b11111111_11100000_00000000
CLASS_OF_DEVICE_MAJOR_SERVICE_CLASSES_MASK == 16769024

\* 0b00000000_00011111_00000000
CLASS_OF_DEVICE_MAJOR_DEVICE_CLASS_MASK == 7936

\* 0b00000000_00000000_11111100
CLASS_OF_DEVICE_MINOR_DEVICE_CLASS_MASK == 252

ClassOfDevice_major_service_classes(self) ==
    BitAnd(self.class_of_device, CLASS_OF_DEVICE_MAJOR_SERVICE_CLASSES_MASK)

\* ClassOfDevice_major_device_class with the mask shifted one bit up (0x3e00)
ClassOfDevice_major_device_class_wide(self) ==
    BitAnd(self.class_of_device, 2 * CLASS_OF_DEVICE_MAJOR_DEVICE_CLASS_MASK)

ClassOfDevice_major_device_class(self) ==
    BitAnd(self.class_of_device, CLASS_OF_DEVICE_MAJOR_DEVICE_CLASS_MASK)

ClassOfDevice_minor_device_class(self) ==
    BitAnd(self.class_of_device, CLASS_OF_DEVICE_MINOR_DEVICE_CLASS_MASK)

\* ClassOfDevice_into with the third payload byte shifted by 8 instead of 16
ClassOfDevice_into_shift8(self) ==
    <<self.length, ClassOfDevice_data_type,
      self.class_of_device % 256,
      (self.class_of_device \div 256) % 256,
      (self.class_of_device \div 256) % 256>>

ClassOfDevice_into(self) ==
    <<self.length, ClassOfDevice_data_type,
      self.class_of_device % 256,
      (self.class_of_device \div 256) % 256,
      (self.class_of_device \div 65536) % 256>>

is_class_of_device(data_type) == ClassOfDevice_data_type = data_type

-----------------------------------------------------------------------------
(* Uuid (uuid crate) as its 16 bytes in field order (Uuid::as_bytes), and  *)
(* the Bluetooth Base UUID 00000000-0000-1000-8000-00805F9B34FB.           *)

BASE_UUID == <<0, 0, 0, 0, 0, 0, 16, 0, 128, 0, 0, 128, 95, 155, 52, 251>>

\* Uuid::to_bytes_le: the first three fields byte-swapped, the rest as is
Uuid_to_bytes_le(u) ==
    <<u[4], u[3], u[2], u[1], u[6], u[5], u[8], u[7]>> \o SubSeq(u, 9, 16)

\* Uuid::from_bytes_le
Uuid_from_bytes_le(b) ==
    <<b[4], b[3], b[2], b[1], b[6], b[5], b[8], b[7]>> \o SubSeq(b, 9, 16)

\* let mut bytes = BASE_UUID.to_bytes_le(); bytes[0..w] = window; from_bytes_le
Uuid_overlay(w) ==
    LET base == Uuid_to_bytes_le(BASE_UUID)
    IN  Uuid_from_bytes_le([i \in 1..16 |-> IF i <= Len(w) THEN w[i] ELSE base[i]])

-----------------------------------------------------------------------------
(* Complete List of 16-bit Service Class UUIDs                             *)
(* (complete_list_of_16bit_service_uuids.rs).                              *)

CompleteListOf16BitServiceUuids_data_type == 3

CompleteListOf16BitServiceUuids_min_len == 4

CompleteListOf16BitServiceUuids_new(uuids) ==
    Ok([length |-> (Len(uuids) * 2 + 1) % U8, uuids |-> uuids])

\* CompleteListOf16BitServiceUuids_try_from without step_by(2): one UUID per
\* overlapping window
CompleteListOf16BitServiceUuids_try_from_no_step(value) ==
    LET len == Len(value)
    IN  IF len < CompleteListOf16BitServiceUuids_min_len
        THEN Err("Invalid data size :" \o ToDecimal(len))
        ELSE LET length == value[1]
             IN  IF ~SliceOk(value, 2, 2 + length - 1)
                 THEN Panic("slice index out of range")
                 ELSE LET w == Windows(Slice(value, 2, 2 + length - 1), 2)
                      IN  Ok([length |-> length,
                              uuids |-> [k \in 1..Len(w) |-> Uuid_overlay(w[k])]])

CompleteListOf16BitServiceUuids_try_from(value) ==
    LET len == Len(value)
    IN  IF len < CompleteListOf16BitServiceUuids_min_len
        THEN Err("Invalid data size :" \o ToDecimal(len))
        ELSE LET length == value[1]
             IN  IF ~SliceOk(value, 2, 2 + length - 1)
                 THEN Panic("slice index out of range")
                 ELSE LET w == StepBy(Windows(Slice(value, 2, 2 + length - 1), 2), 2)
                      IN  Ok([length |-> length,
                              uuids |-> [k \in 1..Len(w) |-> Uuid_overlay(w[k])]])

\* the encoder with Uuid::as_bytes() in place of Uuid::to_bytes_le()
CompleteListOf16BitServiceUuids_into_as_bytes(self) ==
    <<self.length, CompleteListOf16BitServiceUuids_data_type>>
        \o FlatMap([k \in 1..Len(self.uuids) |-> SubSeq(self.uuids[k], 1, 2)], 2)

CompleteListOf16BitServiceUuids_into(self) ==
    <<self.length, CompleteListOf16BitServiceUuids_data_type>>
        \o FlatMap([k \in 1..Len(self.uuids) |->
                        SubSeq(Uuid_to_bytes_le(self.uuids[k]), 1, 2)], 2)

is_complete_list_of_16bit_service_uuids(data_type) ==
    CompleteListOf16BitServiceUuids_data_type = data_type

-----------------------------------------------------------------------------
(* Appearance (appearance.rs).                                             *)

Appearance_data_type == 25

Appearance_new(appearance) == Ok([length |-> 3, appearance |-> appearance])

\* Appearance_from_with_offset reading the length at index 0 (data[0])
Appearance_from_with_offset_length0(data, offset) ==
    IF offset >= Len(data) THEN Panic("index out of bounds")
    ELSE LET length == data[1]
         IN  IF 2 + offset > Len(data) THEN Panic("split_at: mid > len")
             ELSE LET rest == Slice(data, 2 + offset, Len(data))
                  IN  IF Len(rest) # 2 THEN Panic("unwrap on TryFromSliceError")
                      ELSE Ok([length |-> length, appearance |-> U16FromLe(rest)])

Appearance_from_with_offset(data, offset) ==
    IF offset >= Len(data) THEN Panic("index out of bounds")
    ELSE LET length == data[offset + 1]
         IN  IF 2 + offset > Len(data) THEN Panic("split_at: mid > len")
             ELSE LET rest == Slice(data, 2 + offset, Len(data))
                  IN  IF Len(rest) # 2 THEN Panic("unwrap on TryFromSliceError")
                      ELSE Ok([length |-> length, appearance |-> U16FromLe(rest)])

Appearance_from(data) == Appearance_from_with_offset(data, 0)

\* Appearance_category shifting by 5 bits instead of 6
Appearance_category_shift5(self) == BitAnd(self.appearance \div 32, 1023)

\* (self.appearance >> 6) & 0b00000011_11111111
Appearance_category(self) == BitAnd(self.appearance \div 64, 1023)

\* self.appearance & 0b00111111
Appearance_sub_category(self) == BitAnd(self.appearance, 63)

Appearance_into(self) ==
    <<self.length, Appearance_data_type>> \o U16ToLe(self.appearance)

-----------------------------------------------------------------------------
(* Service Data - 16-bit UUID (service_data_16bit_uuid.rs).                *)

ServiceData16BitUUID_data_type == 22

ServiceData16BitUUID_new(uuid, additional_service_data, checks) ==
    LET length == AddU8(3, Len(additional_service_data) % U8, checks)
    IN  IF IsPanic(length) THEN length
        ELSE Ok([length |-> length.v, uuid |-> uuid,
                 additional_service_data |-> additional_service_data])

ServiceData16BitUUID_from_with_offset(data0, offset) ==
    IF offset > Len(data0) THEN Panic("slice start out of range")
    ELSE LET data == Slice(data0, offset, Len(data0))
         IN  IF Len(data) < 4 THEN Panic("index out of bounds")
             ELSE LET length == data[1]
                  IN  IF ~SliceOk(data, 4, 1 + length)
                      THEN Panic("slice index out of range")
                      ELSE Ok([length |-> length,
                               uuid |-> Uuid_overlay(<<data[3], data[4]>>),
                               additional_service_data |-> Slice(data, 4, 1 + length)])

ServiceData16BitUUID_from(data) == ServiceData16BitUUID_from_with_offset(data, 0)

ServiceData16BitUUID_into(self) ==
    <<self.length, ServiceData16BitUUID_data_type>>
        \o SubSeq(Uuid_to_bytes_le(self.uuid), 1, 2)
        \o self.additional_service_data

is_service_data_16bit_uuid(data_type) == ServiceData16BitUUID_data_type = data_type

-----------------------------------------------------------------------------
(* Complete List of 128-bit Service Class UUIDs                            *)
(* (complete_list_of_128bit_service_uuids.rs).                             *)

CompleteListOf128BitServiceUuids_data_type == 7

CompleteListOf128BitServiceUuids_min_len == 17

\* Uuid::from_u128(u128::from_le_bytes(w)): the u128 read from w, least
\* significant byte first, written out most significant byte first
Uuid_from_u128_le(w) == [i \in 1..16 |-> w[17 - i]]

\* uuid.as_u128().to_le_bytes()
Uuid_as_u128_le(u) == [i \in 1..16 |-> u[17 - i]]

CompleteListOf128BitServiceUuids_new(uuids) ==
    Ok([length |-> (Len(uuids) * 16 + 1) % U8, uuids |-> uuids])

CompleteListOf128BitServiceUuids_try_from(value) ==
    LET len == Len(value)
    IN  IF len < CompleteListOf128BitServiceUuids_min_len
        THEN Err("Invalid data size :" \o ToDecimal(len))
        ELSE LET length == value[1]
             IN  IF ~SliceOk(value, 2, 2 + length - 1)
                 THEN Panic("slice index out of range")
                 ELSE LET w == StepBy(Windows(Slice(value, 2, 2 + length - 1), 16), 16)
                      IN  Ok([length |-> length,
                              uuids |-> [k \in 1..Len(w) |-> Uuid_from_u128_le(w[k])]])

CompleteListOf128BitServiceUuids_into(self) ==
    <<self.length, CompleteListOf128BitServiceUuids_data_type>>
        \o FlatMap([k \in 1..Len(self.uuids) |-> Uuid_as_u128_le(self.uuids[k])], 16)

is_complete_list_of_128bit_service_uuids(data_type) ==
    CompleteListOf128BitServiceUuids_data_type = data_type

-----------------------------------------------------------------------------
(* LE Role (le_role.rs).                                                   *)

LeRole_data_type == 28

LeRole_new(le_role) == Ok([length |-> 2, le_role |-> le_role])

LeRole_from_with_offset(data0, offset) ==
    IF offset > Len(data0) THEN Panic("slice start out of range")
    ELSE LET data == Slice(data0, offset, Len(data0))
         IN  IF Len(data) < 3 THEN Panic("index out of bounds")
             ELSE Ok([length |-> data[1], le_role |-> data[3]])

LeRole_from(data) == LeRole_from_with_offset(data, 0)

LeRole_into(self) == <<self.length, LeRole_data_type, self.le_role>>

is_le_role(data_type) == LeRole_data_type = data_type

-----------------------------------------------------------------------------
(* Secure Simple Pairing Randomizer R-192                                  *)
(* (secure_simple_pairing_randomizer_r192.rs).  The u128 is held as its 16 *)
(* bytes, least significant first (u128::to_le_bytes).                     *)

SecureSimplePairingRandomizerR192_data_type == 15

SecureSimplePairingRandomizerR192_min_len == 18

SecureSimplePairingRandomizerR192_new(secure_simple_pairing_randomizer_r192) ==
    Ok([length |-> 17,
        secure_simple_pairing_randomizer_r192 |->
            secure_simple_pairing_randomizer_r192])

\* SecureSimplePairingRandomizerR192_try_from with the size check one byte
\* too low (len < 17)
SecureSimplePairingRandomizerR192_try_from_low(value) ==
    LET len == Len(value)
    IN  IF len < SecureSimplePairingRandomizerR192_min_len - 1
        THEN Err("Invalid data size :" \o ToDecimal(len))
        ELSE IF ~SliceOk(value, 2, 18) THEN Panic("slice index out of range")
        ELSE Ok([length |-> value[1],
                 secure_simple_pairing_randomizer_r192 |-> Slice(value, 2, 18)])

SecureSimplePairingRandomizerR192_try_from(value) ==
    LET len == Len(value)
    IN  IF len < SecureSimplePairingRandomizerR192_min_len
        THEN Err("Invalid data size :" \o ToDecimal(len))
        ELSE Ok([length |-> value[1],
                 secure_simple_pairing_randomizer_r192 |-> Slice(value, 2, 18)])

SecureSimplePairingRandomizerR192_into(self) ==
    <<self.length, SecureSimplePairingRandomizerR192_data_type>>
        \o self.secure_simple_pairing_randomizer_r192

is_secure_simple_pairing_randomizer_r192(data_type) ==
    SecureSimplePairingRandomizerR192_data_type = data_type

-----------------------------------------------------------------------------
(* List of 32-bit Service Solicitation UUIDs                               *)
(* (list_of_32bit_service_solicitation_uuids.rs).                          *)

ListOf32BitServiceSolicitationUUIDs_data_type == 31

ListOf32BitServiceSolicitationUUIDs_new(uuids) ==
    Ok([length |-> (Len(uuids) * 4 + 1) % U8, uuids |-> uuids])

\* ListOf32BitServiceSolicitationUUIDs_from_with_offset without step_by(4):
\* one UUID per overlapping window
ListOf32BitServiceSolicitationUUIDs_from_with_offset_no_step(data0, offset) ==
    IF offset > Len(data0) THEN Panic("slice start out of range")
    ELSE LET data == Slice(data0, offset, Len(data0))
         IN  IF Len(data) = 0 THEN Panic("index out of bounds")
             ELSE LET length == data[1]
                  IN  IF ~SliceOk(data, 2, 2 + length - 1)
                      THEN Panic("slice index out of range")
                      ELSE LET w == Windows(Slice(data, 2, 2 + length - 1), 4)
                           IN  Ok([length |-> length,
                                   uuids |-> [k \in 1..Len(w) |-> Uuid_overlay(w[k])]])

ListOf32BitServiceSolicitationUUIDs_from_with_offset(data0, offset) ==
    IF offset > Len(data0) THEN Panic("slice start out of range")
    ELSE LET data == Slice(data0, offset, Len(data0))
         IN  IF Len(data) = 0 THEN Panic("index out of bounds")
             ELSE LET length == data[1]
                  IN  IF ~SliceOk(data, 2, 2 + length - 1)
                      THEN Panic("slice index out of range")
                      ELSE LET w == StepBy(Windows(Slice(data, 2, 2 + length - 1), 4), 4)
                           IN  Ok([length |-> length,
                                   uuids |-> [k \in 1..Len(w) |-> Uuid_overlay(w[k])]])

ListOf32BitServiceSolicitationUUIDs_from(data) ==
    ListOf32BitServiceSolicitationUUIDs_from_with_offset(data, 0)

ListOf32BitServiceSolicitationUUIDs_into(self) ==
    <<self.length, ListOf32BitServiceSolicitationUUIDs_data_type>>
        \o FlatMap([k \in 1..Len(self.uuids) |->
                        SubSeq(Uuid_to_bytes_le(self.uuids[k]), 1, 4)], 4)

-----------------------------------------------------------------------------
(* Service Data - 32-bit UUID (service_data_32bit_uuid.rs).                *)

ServiceData32BitUUID_data_type == 32

ServiceData32BitUUID_new(uuid, additional_service_data, checks) ==
    LET length == AddU8(5, Len(additional_service_data) % U8, checks)
    IN  IF IsPanic(length) THEN length
        ELSE Ok([length |-> length.v, uuid |-> uuid,
                 additional_service_data |-> additional_service_data])

\* ServiceData32BitUUID_from_with_offset with the tail cut where the 16-bit
\* codec cuts it (data[4..1 + length])
ServiceData32BitUUID_from_with_offset_tail4(data0, offset) ==
    IF offset > Len(data0) THEN Panic("slice start out of range")
    ELSE LET data == Slice(data0, offset, Len(data0))
         IN  IF Len(data) < 6 THEN Panic("index out of bounds")
             ELSE LET length == data[1]
                  IN  IF ~SliceOk(data, 4, 1 + length)
                      THEN Panic("slice index out of range")
                      ELSE Ok([length |-> length,
                               uuid |-> Uuid_overlay(<<data[3], data[4], data[5], data[6]>>),
                               additional_service_data |-> Slice(data, 4, 1 + length)])

ServiceData32BitUUID_from_with_offset(data0, offset) ==
    IF offset > Len(data0) THEN Panic("slice start out of range")
    ELSE LET data == Slice(data0, offset, Len(data0))
         IN  IF Len(data) < 6 THEN Panic("index out of bounds")
             ELSE LET length == data[1]
                  IN  IF ~SliceOk(data, 6, 1 + length)
                      THEN Panic("slice index out of range")
                      ELSE Ok([length |-> length,
                               uuid |-> Uuid_overlay(<<data[3], data[4], data[5], data[6]>>),
                               additional_service_data |-> Slice(data, 6, 1 + length)])

ServiceData32BitUUID_from(data) == ServiceData32BitUUID_from_with_offset(data, 0)

ServiceData32BitUUID_into(self) ==
    <<self.length, ServiceData32BitUUID_data_type>>
        \o SubSeq(Uuid_to_bytes_le(self.uuid), 1, 4)
        \o self.additional_service_data

-----------------------------------------------------------------------------
(* Type tags of the other AD types of the source tree.                     *)

SecureSimplePairingRandomizerR256_data_type == 15

SecureSimplePairingHashC256_data_type == 29

is_secure_simple_pairing_randomizer_r256(data_type) ==
    SecureSimplePairingRandomizerR256_data_type = data_type

is_secure_simple_pairing_hash_c256(data_type) ==
    SecureSimplePairingHashC256_data_type = data_type

is_list_of_32bit_service_solicitation_uuids(data_type) ==
    ListOf32BitServiceSolicitationUUIDs_data_type = data_type

is_service_data_32bit_uuid(data_type) ==
    ServiceData32BitUUID_data_type = data_type

-----------------------------------------------------------------------------
(* Codecs the parser dispatches to whose decoders are not in the source    *)
(* tree: a size check that reports the observed byte count, then the       *)
(* fixed-width payload.                                                    *)

AdvertisingInterval_data_type == 26

AdvertisingIntervalLong_data_type == 47

BigInfo_data_type == 44

AdvertisingInterval_min_len == 4

AdvertisingIntervalLong_min_len == 5

Appearance_min_len == 4

BigInfo_min_len == 35

FixedWidth_try_from(value, min_len) ==
    IF Len(value) < min_len
    THEN Err("Invalid data size :" \o ToDecimal(Len(value)))
    ELSE Ok([length |-> value[1], data |-> Slice(value, 2, min_len)])

AdvertisingInterval_try_from(value) ==
    FixedWidth_try_from(value, AdvertisingInterval_min_len)

AdvertisingIntervalLong_try_from(value) ==
    FixedWidth_try_from(value, AdvertisingIntervalLong_min_len)

Appearance_try_from(value) ==
    IF Len(value) < Appearance_min_len
    THEN Err("Invalid data size :" \o ToDecimal(Len(value)))
    ELSE Ok([length |-> value[1], appearance |-> U16FromLe(Slice(value, 2, 4))])

BigInfo_try_from(value) == FixedWidth_try_from(value, BigInfo_min_len)

is_advertising_interval(data_type) == AdvertisingInterval_data_type = data_type

is_advertising_interval_long(data_type) ==
    AdvertisingIntervalLong_data_type = data_type

is_appearance(data_type) == Appearance_data_type = data_type

is_big_info(data_type) == BigInfo_data_type = data_type

-----------------------------------------------------------------------------
(* Data type parser (parser.rs).  An outcome is a DataTypeParseResult: its *)
(* variant, the codec whose try_from produced the wrapped Result ("none"   *)
(* for DataTypeParseErr), and the wrapped Result or error string.          *)

Outcome(variant, codec, result) ==
    [variant |-> variant, codec |-> codec, result |-> result]

InvalidDataSize == Outcome("DataTypeParseErr", "none", Err("Invalid data size"))

\* UnknownDataType with the message of the other error branch
UnknownDataType_size_message(data_type) ==
    Outcome("DataTypeParseErr", "none", Err("Invalid data size"))

UnknownDataType(data_type) ==
    Outcome("DataTypeParseErr", "none",
            Err("Unknown data type :" \o ToDecimal(data_type)))

\* value.get(1)
DataTypeParseResult_from_get(value) ==
    IF Len(value) > 1 THEN [tag |-> "Some", v |-> value[2]] ELSE NoVal

\* the branches of DataTypeParseResult::from once value.get(1) is known
DataTypeParseResult_from_branch(value, got) ==
    IF got.tag = "Some"
    THEN LET data_type == got.v
         IN  IF is_advertising_interval(data_type)
             THEN Outcome("AdvertisingIntervalResult", "AdvertisingInterval",
                          AdvertisingInterval_try_from(value))
             ELSE IF is_advertising_interval_long(data_type)
             THEN Outcome("AdvertisingIntervalLongResult", "AdvertisingIntervalLong",
                          AdvertisingIntervalLong_try_from(value))
             ELSE IF is_appearance(data_type)
             THEN Outcome("AppearanceResult", "Appearance",
                          Appearance_try_from(value))
             ELSE IF is_big_info(data_type)
             THEN Outcome("BigInfoResult", "BigInfo", BigInfo_try_from(value))
             ELSE IF is_broadcast_code(data_type)
             THEN Outcome("BroadcastCodeResult", "BroadcastCode",
                          BroadcastCode_try_from(value))
             ELSE UnknownDataType(data_type)
    ELSE InvalidDataSize

\* one slot for data_type shared by every call (a static)
Frame_shared(w) == 1

\* the frame that holds the locals value and data_type of the call made by
\* worker w: each call has its own
Frame(w) == w

\* DataTypeParseResult_from reading the tag at index 0 (value.get(0))
DataTypeParseResult_from_first_byte(value) ==
    IF Len(value) > 0
    THEN LET data_type == value[1]
         IN  IF is_advertising_interval(data_type)
             THEN Outcome("AdvertisingIntervalResult", "AdvertisingInterval",
                          AdvertisingInterval_try_from(value))
             ELSE IF is_advertising_interval_long(data_type)
             THEN Outcome("AdvertisingIntervalLongResult", "AdvertisingIntervalLong",
                          AdvertisingIntervalLong_try_from(value))
             ELSE IF is_appearance(data_type)
             THEN Outcome("AppearanceResult", "Appearance",
                          Appearance_try_from(value))
             ELSE IF is_big_info(data_type)
             THEN Outcome("BigInfoResult", "BigInfo", BigInfo_try_from(value))
             ELSE IF is_broadcast_code(data_type)
             THEN Outcome("BroadcastCodeResult", "BroadcastCode",
                          BroadcastCode_try_from(value))
             ELSE UnknownDataType(data_type)
    ELSE InvalidDataSize

\* impl From<&Vec<u8>> for DataTypeParseResult
DataTypeParseResult_from(value) ==
    IF Len(value) > 1
    THEN LET data_type == value[2]
         IN  IF is_advertising_interval(data_type)
             THEN Outcome("AdvertisingIntervalResult", "AdvertisingInterval",
                          AdvertisingInterval_try_from(value))
             ELSE IF is_advertising_interval_long(data_type)
             THEN Outcome("AdvertisingIntervalLongResult", "AdvertisingIntervalLong",
                          AdvertisingIntervalLong_try_from(value))
             ELSE IF is_appearance(data_type)
             THEN Outcome("AppearanceResult", "Appearance",
                          Appearance_try_from(value))
             ELSE IF is_big_info(data_type)
             THEN Outcome("BigInfoResult", "BigInfo", BigInfo_try_from(value))
             ELSE IF is_broadcast_code(data_type)
             THEN Outcome("BroadcastCodeResult", "BroadcastCode",
                          BroadcastCode_try_from(value))
             ELSE UnknownDataType(data_type)
    ELSE InvalidDataSize

\* impl From<&Vec<Vec<u8>>> for DataTypeParseResults: the outcomes in order;
\* a fault in one dispatch is a fault of the whole call
DataTypeParseResults_from_records(value) ==
    LET mapped == [k \in 1..Len(value) |-> DataTypeParseResult_from(value[k])]
    IN  IF \E k \in 1..Len(mapped) : IsPanic(mapped[k].result)
        THEN Panic("fault in a codec")
        ELSE Ok(mapped)

\* ScanRecord without "index += 1": the index advances by size only
ScanRecord_no_increment(value, i) ==
    IF i >= Len(value) THEN Panic("index out of bounds")
    ELSE LET size == value[i + 1]
         IN  IF ~SliceOk(value, i, i + 1 + size)
             THEN Panic("slice index out of range")
             ELSE Ok([inner |-> Slice(value, i, i + 1 + size),
                      next |-> i + size])

\* ScanRecord cutting the payload only (value[index + 1..index + 1 + size])
ScanRecord_payload_only(value, i) ==
    IF i >= Len(value) THEN Panic("index out of bounds")
    ELSE LET size == value[i + 1]
         IN  IF ~SliceOk(value, i, i + 1 + size)
             THEN Panic("slice index out of range")
             ELSE Ok([inner |-> Slice(value, i + 1, i + 1 + size),
                      next |-> i + 1 + size])

\* one iteration of the loop of impl From<&Vec<u8>> for DataTypeParseResults:
\* the record cut at index, or a fault when the slice leaves the buffer
ScanRecord(value, i) ==
    IF i >= Len(value) THEN Panic("index out of bounds")
    ELSE LET size == value[i + 1]
         IN  IF ~SliceOk(value, i, i + 1 + size)
             THEN Panic("slice index out of range")
             ELSE Ok([inner |-> Slice(value, i, i + 1 + size),
                      next |-> i + 1 + size])

-----------------------------------------------------------------------------
(* Inputs.                                                                 *)

Types == {"BroadcastCode", "ClassOfDevice", "CompleteListOf16BitServiceUuids",
          "Appearance", "ServiceData16BitUUID",
          "CompleteListOf128BitServiceUuids", "LeRole",
          "SecureSimplePairingRandomizerR192",
          "ListOf32BitServiceSolicitationUUIDs", "ServiceData32BitUUID"}

\* the codecs that decode with from_with_offset(data, offset)
OffsetTypes ==
    {"Appearance", "LeRole", "ServiceData16BitUUID", "ClassOfDevice",
     "ListOf32BitServiceSolicitationUUIDs", "ServiceData32BitUUID"}

\* every AD type of the source tree
AdTypes ==
    Types \cup {"SecureSimplePairingRandomizerR256", "SecureSimplePairingHashC256"}

\* the bytes 1, 2, ..., n
Ramp(n) == [i \in 1..n |-> i]

\* payload bytes; two values, so that order shows
SomeBytes == {1, 2}

\* payload sizes at which a u8 length stops fitting
LongLens == {252, 253, 254, 255, 256}

Codes == SeqsUpTo(SomeBytes, MaxCodeLen) \cup {Fill(n, 1) : n \in LongLens}

\* u32 values by their four bytes, kept below 2^31 (the range of integers
\* the model checker computes with)
U32Samples ==
    {a + 256 * b + 65536 * c + 16777216 * d : a \in {0, 4}, b \in {0, 1},
                                               c \in {0, 128}, d \in {0, 1, 127}}

U16Samples == {0, 5188, 65535}

\* appearances by category and sub-category; 81 * 64 + 4 is 0x1444
AppearanceSamples ==
    {c * 64 + s : c \in {0, 1, 2, 81, 512, 1023}, s \in {0, 1, 4, 32, 63}}

\* classes of device by major service classes, major device class and minor
\* device class, each within its mask; the bits 0 and 1 (format type) and a
\* bit above the 24-bit field set or not
ClassOfDeviceSamples ==
    {s + d + m + f : s \in {0, 8192, 8388608, 16769024}, d \in {0, 256, 7936},
                     m \in {0, 4, 252}, f \in {0, 3, 16777216}}

\* 00000201-0000-1000-8000-00805F9B34FB and a UUID off the Base UUID
UuidSamples ==
    {BASE_UUID,
     <<0, 0, 2, 1, 0, 0, 16, 0, 128, 0, 0, 128, 95, 155, 52, 251>>,
     <<9, 9, 1, 2, 9, 9, 9, 9, 9, 9, 9, 9, 9, 9, 9, 9>>,
     <<0, 0, 2, 1, 9, 9, 9, 9, 9, 9, 9, 9, 9, 9, 9, 9>>}

UuidLists ==
    SeqsUpTo(UuidSamples, MaxUuids)
        \cup {Fill(n, BASE_UUID) : n \in {15, 16, 63, 64, 127, 128}}

TypeTag(t) ==
    CASE t = "BroadcastCode" -> BroadcastCode_data_type
      [] t = "ClassOfDevice" -> ClassOfDevice_data_type
      [] t = "CompleteListOf16BitServiceUuids" ->
             CompleteListOf16BitServiceUuids_data_type
      [] t = "Appearance" -> Appearance_data_type
      [] t = "ServiceData16BitUUID" -> ServiceData16BitUUID_data_type
      [] t = "CompleteListOf128BitServiceUuids" ->
             CompleteListOf128BitServiceUuids_data_type
      [] t = "LeRole" -> LeRole_data_type
      [] t = "SecureSimplePairingRandomizerR192" ->
             SecureSimplePairingRandomizerR192_data_type
      [] t = "SecureSimplePairingRandomizerR256" ->
             SecureSimplePairingRandomizerR256_data_type
      [] t = "SecureSimplePairingHashC256" -> SecureSimplePairingHashC256_data_type
      [] t = "ListOf32BitServiceSolicitationUUIDs" ->
             ListOf32BitServiceSolicitationUUIDs_data_type
      [] t = "ServiceData32BitUUID" -> ServiceData32BitUUID_data_type

\* is_<type>(data_type)
is_type(t, data_type) ==
    CASE t = "BroadcastCode" -> is_broadcast_code(data_type)
      [] t = "ClassOfDevice" -> is_class_of_device(data_type)
      [] t = "CompleteListOf16BitServiceUuids" ->
             is_complete_list_of_16bit_service_uuids(data_type)
      [] t = "Appearance" -> is_appearance(data_type)
      [] t = "ServiceData16BitUUID" -> is_service_data_16bit_uuid(data_type)
      [] t = "CompleteListOf128BitServiceUuids" ->
             is_complete_list_of_128bit_service_uuids(data_type)
      [] t = "LeRole" -> is_le_role(data_type)
      [] t = "SecureSimplePairingRandomizerR192" ->
             is_secure_simple_pairing_randomizer_r192(data_type)
      [] t = "SecureSimplePairingRandomizerR256" ->
             is_secure_simple_pairing_randomizer_r256(data_type)
      [] t = "SecureSimplePairingHashC256" ->
             is_secure_simple_pairing_hash_c256(data_type)
      [] t = "ListOf32BitServiceSolicitationUUIDs" ->
             is_list_of_32bit_service_solicitation_uuids(data_type)
      [] t = "ServiceData32BitUUID" -> is_service_data_32bit_uuid(data_type)

\* raw records offered to the decoder of t: any length byte, the tag of t or
\* another one, any short payload; and vectors too short to hold a tag
ShortRecords(t) ==
    {<<>>} \cup {<<l>> : l \in 0..1}
        \cup {<<l, g>> \o p : l \in (0..(MaxPayload + 2)) \cup {255},
                             g \in {TypeTag(t), 0},
                             p \in SeqsUpTo(SomeBytes, MaxPayload)}

\* records of n bytes around the minimum size of a 16-byte payload, with a
\* length byte that is n - 1, or 0, or counts up to two elements
LongRecords(t) ==
    {<<n - 1, TypeTag(t)>> \o Ramp(n - 2) : n \in 6..19}
        \cup {<<l, TypeTag(t)>> \o Ramp(n - 2) : n \in {17, 18, 19, 34},
                                                 l \in {0, 16, 17, 18, 33, 34}}

\* records of 18 and 19 bytes whose length byte declares 3, 16 or 17 bytes:
\* the declared bytes are 9, the bytes behind them are 8 or 9
TailRecords(t) ==
    {<<l, TypeTag(t)>> \o Fill(l - 1, 9) \o Fill(n - 1 - l, f) :
         n \in {18, 19}, l \in {3, 16, 17}, f \in {8, 9}}

\* the record of tests::test_try_from of the 16-bit list, and a 32-bit list
\* of two elements
TestRecords(t) ==
    CASE t = "CompleteListOf16BitServiceUuids" -> {<<5, TypeTag(t), 1, 2, 3, 4>>}
      [] t = "ListOf32BitServiceSolicitationUUIDs" ->
             {<<9, TypeTag(t), 1, 2, 3, 4, 5, 6, 7, 8>>,
              <<10, TypeTag(t), 1, 2, 3, 4, 5, 6, 7, 8, 9>>}
      [] OTHER -> {}

\* well-formed records of the codecs that decode at an offset
WellFormedRecords(t) ==
    CASE t = "Appearance" -> {<<3, TypeTag(t)>> \o U16ToLe(a) : a \in U16Samples}
      [] t = "ClassOfDevice" ->
             {<<4, TypeTag(t), a, b, c>> : a \in {0, 4}, b \in {1}, c \in {0, 64}}
      [] t = "ServiceData16BitUUID" ->
             {<<3 + Len(d), TypeTag(t), 1, 2>> \o d : d \in SeqsUpTo(SomeBytes, 2)}
      [] t = "ServiceData32BitUUID" ->
             {<<5 + Len(d), TypeTag(t), 1, 2, 3, 4>> \o d : d \in SeqsUpTo(SomeBytes, 2)}
      [] t = "LeRole" -> {<<2, TypeTag(t), r>> : r \in 0..1}
      [] t = "ListOf32BitServiceSolicitationUUIDs" -> {<<5, TypeTag(t), 1, 2, 3, 4>>}
      [] OTHER -> {}

\* a well-formed record behind a prefix of other bytes, and the same
\* followed by one more byte
PrefixedRecords(t) ==
    {p \o r \o q : p \in SeqsUpTo({7, 8}, MaxOffset) \ {<<>>},
                   r \in WellFormedRecords(t), q \in {<<>>, <<6>>}}

RawRecords(t) ==
    IF t \in {"CompleteListOf128BitServiceUuids",
              "SecureSimplePairingRandomizerR192"}
    THEN ShortRecords(t) \cup LongRecords(t) \cup TailRecords(t)
    ELSE ShortRecords(t) \cup TestRecords(t) \cup PrefixedRecords(t)

\* arguments of <codec>::new
NewArgs(t) ==
    CASE t = "BroadcastCode" -> {<<c>> : c \in Codes}
      [] t = "ClassOfDevice" -> {<<c>> : c \in U32Samples \cup ClassOfDeviceSamples}
      [] t = "CompleteListOf16BitServiceUuids" -> {<<l>> : l \in UuidLists}
      [] t = "Appearance" -> {<<a>> : a \in U16Samples \cup AppearanceSamples}
      [] t = "ServiceData16BitUUID" ->
             {<<u, d>> : u \in UuidSamples,
                         d \in SeqsUpTo(SomeBytes, 1) \cup {Fill(n, 1) : n \in LongLens}}
      [] t = "CompleteListOf128BitServiceUuids" -> {<<l>> : l \in UuidLists}
      [] t = "LeRole" -> {<<r>> : r \in 0..3}
      [] t = "SecureSimplePairingRandomizerR192" ->
             {<<Ramp(16)>>, <<Fill(16, 0)>>}
      [] t = "ListOf32BitServiceSolicitationUUIDs" -> {<<l>> : l \in UuidLists}
      [] t = "ServiceData32BitUUID" ->
             {<<u, d>> : u \in UuidSamples,
                         d \in SeqsUpTo(SomeBytes, 1) \cup {Fill(n, 1) : n \in LongLens}}

\* <codec>::new under the overflow-checking or the wrapping build profile
Construct(t, a, checks) ==
    CASE t = "BroadcastCode" -> BroadcastCode_new(a[1], checks)
      [] t = "ClassOfDevice" -> ClassOfDevice_new(a[1])
      [] t = "CompleteListOf16BitServiceUuids" ->
             CompleteListOf16BitServiceUuids_new(a[1])
      [] t = "Appearance" -> Appearance_new(a[1])
      [] t = "ServiceData16BitUUID" -> ServiceData16BitUUID_new(a[1], a[2], checks)
      [] t = "CompleteListOf128BitServiceUuids" ->
             CompleteListOf128BitServiceUuids_new(a[1])
      [] t = "LeRole" -> LeRole_new(a[1])
      [] t = "SecureSimplePairingRandomizerR192" ->
             SecureSimplePairingRandomizerR192_new(a[1])
      [] t = "ListOf32BitServiceSolicitationUUIDs" ->
             ListOf32BitServiceSolicitationUUIDs_new(a[1])
      [] t = "ServiceData32BitUUID" -> ServiceData32BitUUID_new(a[1], a[2], checks)

\* impl Into<Vec<u8>>
Encode(t, v) ==
    CASE t = "BroadcastCode" -> BroadcastCode_into(v)
      [] t = "ClassOfDevice" -> ClassOfDevice_into(v)
      [] t = "CompleteListOf16BitServiceUuids" ->
             CompleteListOf16BitServiceUuids_into(v)
      [] t = "Appearance" -> Appearance_into(v)
      [] t = "ServiceData16BitUUID" -> ServiceData16BitUUID_into(v)
      [] t = "CompleteListOf128BitServiceUuids" ->
             CompleteListOf128BitServiceUuids_into(v)
      [] t = "LeRole" -> LeRole_into(v)
      [] t = "SecureSimplePairingRandomizerR192" ->
             SecureSimplePairingRandomizerR192_into(v)
      [] t = "ListOf32BitServiceSolicitationUUIDs" ->
             ListOf32BitServiceSolicitationUUIDs_into(v)
      [] t = "ServiceData32BitUUID" -> ServiceData32BitUUID_into(v)

\* impl TryFrom<&Vec<u8>> / impl From<&Vec<u8>>
Decode(t, b) ==
    CASE t = "BroadcastCode" -> BroadcastCode_try_from(b)
      [] t = "ClassOfDevice" -> ClassOfDevice_from(b)
      [] t = "CompleteListOf16BitServiceUuids" ->
             CompleteListOf16BitServiceUuids_try_from(b)
      [] t = "Appearance" -> Appearance_from(b)
      [] t = "ServiceData16BitUUID" -> ServiceData16BitUUID_from(b)
      [] t = "CompleteListOf128BitServiceUuids" ->
             CompleteListOf128BitServiceUuids_try_from(b)
      [] t = "LeRole" -> LeRole_from(b)
      [] t = "SecureSimplePairingRandomizerR192" ->
             SecureSimplePairingRandomizerR192_try_from(b)
      [] t = "ListOf32BitServiceSolicitationUUIDs" ->
             ListOf32BitServiceSolicitationUUIDs_from(b)
      [] t = "ServiceData32BitUUID" -> ServiceData32BitUUID_from(b)

\* <codec>::from_with_offset(&data, offset)
DecodeAt(t, b, o) ==
    CASE t = "Appearance" -> Appearance_from_with_offset(b, o)
      [] t = "LeRole" -> LeRole_from_with_offset(b, o)
      [] t = "ServiceData16BitUUID" -> ServiceData16BitUUID_from_with_offset(b, o)
      [] t = "ClassOfDevice" -> ClassOfDevice_from_with_offset(b, o)
      [] t = "ListOf32BitServiceSolicitationUUIDs" ->
             ListOf32BitServiceSolicitationUUIDs_from_with_offset(b, o)
      [] t = "ServiceData32BitUUID" -> ServiceData32BitUUID_from_with_offset(b, o)

\* the accessors of a value
Accessors(t, v) ==
    CASE t = "Appearance" ->
             [category |-> Appearance_category(v),
              sub_category |-> Appearance_sub_category(v)]
      [] t = "ClassOfDevice" ->
             [major_service_classes |-> ClassOfDevice_major_service_classes(v),
              major_device_class |-> ClassOfDevice_major_device_class(v),
              minor_device_class |-> ClassOfDevice_minor_device_class(v)]

\* bytes of flat buffers: length bytes 0..3 and the Broadcast_Code tag
ScanBytes == {0, 1, 2, 3, 45}

Buffers == SeqsUpTo(ScanBytes, MaxBuf)

\* records offered to the parser, well formed or not
RecordSamples ==
    {<<>>, <<0>>, <<100>>, <<45>>, <<1, 45>>, <<1, 0>>, <<2, 0, 1>>,
     <<5, 45, 1, 2, 1, 2>>, <<0, 45, 1, 2, 1, 2>>,
     <<3, 25, 68, 20>>, <<3, 26, 1, 0>>, <<1, 47>>, <<1, 44>>, <<2, 3, 1>>,
     <<2, 13, 1>>, <<1, 255>>, <<4, 47, 1, 0, 0>>, <<7, 45, 1, 2, 1, 2>>}

RecordLists == SeqsUpTo(RecordSamples, MaxRecords)

Workers == 1..MaxWorkers

\* records dispatched by the workers: too short, two known tags, an unknown
\* tag, and a Broadcast_Code record with length byte 0
WorkerRecords ==
    {<<1>>, <<5, 45, 1, 2, 1, 2>>, <<3, 25, 68, 20>>, <<1, 0>>,
     <<0, 45, 1, 2, 1, 2>>}

\* a record whose length byte counts the bytes that follow it
WellFormedRecord(r) == Len(r) >= 1 /\ r[1] = Len(r) - 1

WellFormedLists ==
    SeqsUpTo({r \in RecordSamples : WellFormedRecord(r)}, MaxRecords)

-----------------------------------------------------------------------------
(* The state machine: a codec run (new, into, decode, into) or a parser    *)
(* run (one dispatch, a list of records, or the scan of a flat buffer).    *)
(* A run starts in the initial state and is one sequence of calls.         *)

codecVars == <<typ, x, bytes, y, out, cpc, offs, fields>>

parserVars == <<entry, buffer, index, vec, results, rs, spc>>

queryVars == <<qtag, matches, qpc>>

workerVars == <<wrec, wtag, wout, wpc>>

\* no run has started
Idle ==
    /\ cpc = "idle"
    /\ spc = "idle"
    /\ qpc = "idle"
    /\ \A w \in Workers : wpc[w] = "idle"

Init ==
    /\ typ = "none"
    /\ x = NoVal
    /\ bytes = <<>>
    /\ y = NoVal
    /\ out = <<>>
    /\ cpc = "idle"
    /\ offs = 0
    /\ fields = NoVal
    /\ entry = "none"
    /\ buffer = <<>>
    /\ index = 0
    /\ vec = <<>>
    /\ results = <<>>
    /\ rs = <<>>
    /\ spc = "idle"
    /\ qtag = 0
    /\ matches = {}
    /\ qpc = "idle"
    /\ wrec = [w \in Workers |-> <<>>]
    /\ wtag = [w \in Workers |-> NoVal]
    /\ wout = [w \in Workers |-> NoVal]
    /\ wpc = [w \in Workers |-> "idle"]

\* let x = <codec>::new(...)
New ==
    /\ Idle
    /\ \E t \in Types : \E a \in NewArgs(t) : \E checks \in BOOLEAN :
        /\ typ' = t
        /\ x' = Construct(t, a, checks)
        /\ bytes' = <<>>
        /\ y' = NoVal
        /\ out' = <<>>
        /\ cpc' = "new"
        /\ offs' = 0
        /\ fields' = NoVal
        /\ UNCHANGED parserVars
        /\ UNCHANGED workerVars
        /\ UNCHANGED queryVars

\* let bytes: Vec<u8> = x.into()
Into ==
    /\ cpc = "new"
    /\ IsOk(x)
    /\ bytes' = Encode(typ, x.v)
    /\ cpc' = "bytes"
    /\ UNCHANGED <<typ, x, y, out, offs, fields>>
    /\ UNCHANGED parserVars
    /\ UNCHANGED workerVars
    /\ UNCHANGED queryVars

\* a raw record handed to the decoder of t
Raw ==
    /\ Idle
    /\ \E t \in Types : \E b \in RawRecords(t) :
        /\ typ' = t
        /\ x' = NoVal
        /\ bytes' = b
        /\ y' = NoVal
        /\ out' = <<>>
        /\ cpc' = "bytes"
        /\ offs' = 0
        /\ fields' = NoVal
        /\ UNCHANGED parserVars
        /\ UNCHANGED workerVars
        /\ UNCHANGED queryVars

\* the caller's vector after a decode of type t at offset o: every decoder
\* takes &Vec<u8>
CallerData(t, b, o) ==
    IF t = "ClassOfDevice" THEN ClassOfDevice_from_with_offset_caller_data(b, o)
    ELSE b

\* the decoded value v once the caller's vector is b: the fields are u8, u16,
\* u32, bool, Uuid, Vec<u8> and Vec<Uuid>, none borrows from the vector
Owned(v, b) == v

\* let y = <codec>::try_from(&bytes) or <codec>::from(&bytes)
TryFrom ==
    /\ cpc = "bytes"
    /\ y' = Decode(typ, bytes)
    /\ bytes' = CallerData(typ, bytes, 0)
    /\ cpc' = "decoded"
    /\ UNCHANGED <<typ, x, out, offs, fields>>
    /\ UNCHANGED parserVars
    /\ UNCHANGED workerVars
    /\ UNCHANGED queryVars

\* let out: Vec<u8> = y.unwrap().into()
IntoAgain ==
    /\ cpc = "decoded"
    /\ IsOk(y)
    /\ out' = Encode(typ, y.v)
    /\ cpc' = "reencoded"
    /\ UNCHANGED <<typ, x, bytes, y, offs, fields>>
    /\ UNCHANGED parserVars
    /\ UNCHANGED workerVars
    /\ UNCHANGED queryVars

\* let y = <codec>::from_with_offset(&bytes, offset), offset above 0
FromWithOffset ==
    /\ cpc = "bytes"
    /\ typ \in OffsetTypes
    /\ \E o \in 1..MaxOffset :
        /\ offs' = o
        /\ y' = DecodeAt(typ, bytes, o)
        /\ bytes' = CallerData(typ, bytes, o)
    /\ cpc' = "decoded"
    /\ UNCHANGED <<typ, x, out, fields>>
    /\ UNCHANGED parserVars
    /\ UNCHANGED workerVars
    /\ UNCHANGED queryVars

\* data = Vec::new(); data.push(0): the caller replaces the vector the value
\* y was decoded from
Release ==
    /\ cpc = "decoded"
    /\ IsOk(y)
    /\ \E b \in {<<>>, <<0>>} :
        /\ bytes' = b
        /\ y' = Owned(y, b)
    /\ cpc' = "released"
    /\ UNCHANGED <<typ, x, out, offs, fields>>
    /\ UNCHANGED parserVars
    /\ UNCHANGED workerVars
    /\ UNCHANGED queryVars

\* the accessors of x: category(), sub_category(), major_service_classes(), ...
Read ==
    /\ cpc = "new"
    /\ IsOk(x)
    /\ typ \in {"Appearance", "ClassOfDevice"}
    /\ fields' = Accessors(typ, x.v)
    /\ cpc' = "read"
    /\ UNCHANGED <<typ, x, bytes, y, out, offs>>
    /\ UNCHANGED parserVars
    /\ UNCHANGED workerVars
    /\ UNCHANGED queryVars

\* is_<type>(data_type) of every AD type, for one data type value
IsTypeQuery ==
    /\ Idle
    /\ \E g \in 0..(U8 - 1) :
        /\ qtag' = g
        /\ matches' = {t \in AdTypes : is_type(t, g)}
    /\ qpc' = "asked"
    /\ UNCHANGED codecVars
    /\ UNCHANGED parserVars
    /\ UNCHANGED workerVars

\* DataTypeParseResult::from(&record)
Dispatch ==
    /\ Idle
    /\ \E r \in RecordSamples :
        LET o == DataTypeParseResult_from(r)
        IN  /\ entry' = "record"
            /\ vec' = <<r>>
            /\ results' = IF IsPanic(o.result) THEN <<>> ELSE <<o>>
            /\ spc' = IF IsPanic(o.result) THEN "panic" ELSE "done"
            /\ buffer' = <<>>
            /\ index' = 0
            /\ rs' = <<>>
            /\ UNCHANGED codecVars
            /\ UNCHANGED queryVars
            /\ UNCHANGED workerVars

\* DataTypeParseResults::from(&records)
FromRecords ==
    /\ Idle
    /\ \E l \in RecordLists :
        LET r == DataTypeParseResults_from_records(l)
        IN  /\ entry' = "records"
            /\ vec' = l
            /\ results' = IF IsOk(r) THEN r.v ELSE <<>>
            /\ spc' = IF IsOk(r) THEN "done" ELSE "panic"
            /\ buffer' = <<>>
            /\ index' = 0
            /\ rs' = <<>>
            /\ UNCHANGED codecVars
            /\ UNCHANGED queryVars
            /\ UNCHANGED workerVars

\* DataTypeParseResults::from(&buffer) entered, buffer any byte vector
ScanBuffer ==
    /\ Idle
    /\ \E b \in Buffers :
        /\ entry' = "buffer"
        /\ buffer' = b
        /\ index' = 0
        /\ vec' = <<>>
        /\ results' = <<>>
        /\ rs' = <<>>
        /\ spc' = "loop"
        /\ UNCHANGED codecVars
        /\ UNCHANGED queryVars
        /\ UNCHANGED workerVars

\* DataTypeParseResults::from(&buffer) entered, buffer the concatenation of
\* well-formed records
ScanConcat ==
    /\ Idle
    /\ \E l \in WellFormedLists :
        /\ entry' = "buffer"
        /\ buffer' = Concat(l)
        /\ index' = 0
        /\ vec' = <<>>
        /\ results' = <<>>
        /\ rs' = l
        /\ spc' = "loop"
        /\ l # <<>>
        /\ UNCHANGED codecVars
        /\ UNCHANGED queryVars
        /\ UNCHANGED workerVars

\* ScanStep as the body of a loop that tests "index < len" after the body
ScanStep_test_after ==
    /\ spc = "loop"
    /\ index < Len(buffer) \/ index = 0
    /\ LET r == ScanRecord(buffer, index)
       IN  IF IsOk(r)
           THEN /\ vec' = Append(vec, r.v.inner)
                /\ index' = r.v.next
                /\ spc' = "loop"
           ELSE /\ spc' = "panic"
                /\ UNCHANGED <<vec, index>>
    /\ UNCHANGED <<entry, buffer, results, rs>>
    /\ UNCHANGED codecVars
    /\ UNCHANGED queryVars
    /\ UNCHANGED workerVars

\* one iteration of "while index < len"
ScanStep ==
    /\ spc = "loop"
    /\ index < Len(buffer)
    /\ LET r == ScanRecord(buffer, index)
       IN  IF IsOk(r)
           THEN /\ vec' = Append(vec, r.v.inner)
                /\ index' = r.v.next
                /\ spc' = "loop"
           ELSE /\ spc' = "panic"
                /\ UNCHANGED <<vec, index>>
    /\ UNCHANGED <<entry, buffer, results, rs>>
    /\ UNCHANGED codecVars
    /\ UNCHANGED queryVars
    /\ UNCHANGED workerVars

\* the loop is left: Self::from(&vec)
ScanEnd ==
    /\ spc = "loop"
    /\ index >= Len(buffer)
    /\ LET r == DataTypeParseResults_from_records(vec)
       IN  /\ results' = IF IsOk(r) THEN r.v ELSE <<>>
           /\ spc' = IF IsOk(r) THEN "done" ELSE "panic"
    /\ UNCHANGED <<entry, buffer, index, vec, rs>>
    /\ UNCHANGED codecVars
    /\ UNCHANGED queryVars
    /\ UNCHANGED workerVars

\* every worker is handed its own record and calls DataTypeParseResult::from
Spawn ==
    /\ Idle
    /\ \E f \in [Workers -> WorkerRecords] : wrec' = f
    /\ wpc' = [w \in Workers |-> "start"]
    /\ UNCHANGED <<wtag, wout>>
    /\ UNCHANGED codecVars
    /\ UNCHANGED parserVars
    /\ UNCHANGED queryVars

\* worker w: if let Some(data_type) = value.get(1)
WorkerGet ==
    \E w \in Workers :
        /\ wpc[w] = "start"
        /\ wtag' = [wtag EXCEPT ![Frame(w)] = DataTypeParseResult_from_get(wrec[w])]
        /\ wpc' = [wpc EXCEPT ![w] = "tagged"]
        /\ UNCHANGED <<wrec, wout>>
        /\ UNCHANGED codecVars
        /\ UNCHANGED parserVars
        /\ UNCHANGED queryVars

\* worker w: the is_<type> cascade and the try_from of the matching codec
WorkerDispatch ==
    \E w \in Workers :
        /\ wpc[w] = "tagged"
        /\ wout' = [wout EXCEPT ![w] =
                        DataTypeParseResult_from_branch(wrec[w], wtag[Frame(w)])]
        /\ wpc' = [wpc EXCEPT ![w] = "done"]
        /\ UNCHANGED <<wrec, wtag>>
        /\ UNCHANGED codecVars
        /\ UNCHANGED parserVars
        /\ UNCHANGED queryVars

Next ==
    \/ New
    \/ Into
    \/ Raw
    \/ TryFrom
    \/ IntoAgain
    \/ FromWithOffset
    \/ Release
    \/ Read
    \/ IsTypeQuery
    \/ Dispatch
    \/ FromRecords
    \/ ScanBuffer
    \/ ScanConcat
    \/ ScanStep
    \/ ScanEnd
    \/ Spawn
    \/ WorkerGet
    \/ WorkerDispatch

Spec == Init /\ [][Next]_vars

\* a call of DataTypeParseResults::from that has entered its loop runs on:
\* the loop is straight-line code with no suspension point
FairSpec == Spec /\ WF_vars(ScanStep) /\ WF_vars(ScanEnd)

-----------------------------------------------------------------------------
(* Properties.                                                             *)

\* the encoded vector o carries its own length and the tag of t
LengthInvariant(t, o) ==
    /\ Len(o) >= 2
    /\ o[1] = Len(o) - 1
    /\ o[2] = TypeTag(t)

\* a codec run that went new, into, decode
ForwardDecoded(t) ==
    /\ typ = t
    /\ IsOk(x)
    /\ offs = 0
    /\ cpc \in {"decoded", "reencoded"}

\* a codec run that decoded a raw record
RawDecoded(t) ==
    /\ typ = t
    /\ x = NoVal
    /\ offs = 0
    /\ cpc \in {"decoded", "reencoded"}

\* C1 as stated: for every byte vector c, try_from(new(c).into()) is Ok(y)
\* with y.length = x.length and y.broadcast_code = x.broadcast_code.
C1_RoundTripAnyCode ==
    ForwardDecoded("BroadcastCode") =>
        /\ IsOk(y)
        /\ y.v.length = x.v.length
        /\ y.v.broadcast_code = x.v.broadcast_code

\* C1 amended: for every byte vector c of 4 to 254 bytes,
\* try_from(new(c).into()) is Ok(y) with y.length = x.length = 1 + len(c)
\* and y.broadcast_code = x.broadcast_code = c.
C1_RoundTripCode4To254 ==
    (/\ ForwardDecoded("BroadcastCode")
     /\ Len(x.v.broadcast_code) >= 4
     /\ Len(x.v.broadcast_code) <= 254) =>
        /\ IsOk(y)
        /\ y.v.length = x.v.length
        /\ y.v.length = 1 + Len(x.v.broadcast_code)
        /\ y.v.broadcast_code = x.v.broadcast_code

\* C1 witness: a 5-byte code with both byte values went round and came back.
C1_Witness ==
    /\ ForwardDecoded("BroadcastCode")
    /\ x.v.broadcast_code = <<1, 2, 2, 1, 2>>
    /\ IsOk(y)
    /\ y.v.broadcast_code = <<1, 2, 2, 1, 2>>

\* C2 as stated: for every u32 c, from(new(c).into()) has class_of_device = c
\* and length = 4.
C2_RoundTripAnyU32 ==
    ForwardDecoded("ClassOfDevice") =>
        /\ IsOk(y)
        /\ y.v.class_of_device = x.v.class_of_device
        /\ y.v.length = 4

\* C2 amended: for every u32 c, from(new(c).into()) has class_of_device equal
\* to the low 24 bits of c (c itself when c < 2^24) and length = 4.
C2_RoundTripLow24Bits ==
    ForwardDecoded("ClassOfDevice") =>
        /\ IsOk(y)
        /\ y.v.class_of_device = x.v.class_of_device % 16777216
        /\ y.v.length = 4

\* C2 witness: a value with bits above bit 23 was encoded and decoded.
C2_Witness ==
    /\ ForwardDecoded("ClassOfDevice")
    /\ x.v.class_of_device = 16777216 + 8388608 + 256 + 4
    /\ IsOk(y)
    /\ y.v.class_of_device = 8388608 + 256 + 4

\* the precondition of C3 on the raw record b
C3_Pre(b) ==
    /\ Len(b) >= 4
    /\ b[2] = CompleteListOf16BitServiceUuids_data_type
    /\ b[1] = Len(b) - 1

\* C3 as stated: for every b with len(b) >= 4, b[1] = 0x03, b[0] = len(b) - 1,
\* try_from(b) is Ok(v) and v.into() = b.
C3_ReverseRoundTripAnyLength ==
    (RawDecoded("CompleteListOf16BitServiceUuids") /\ C3_Pre(bytes)) =>
        /\ IsOk(y)
        /\ cpc = "reencoded" => out = bytes

\* C3 amended: for every b with len(b) >= 4, len(b) even (a whole number of
\* 2-byte elements), b[1] = 0x03 and b[0] = len(b) - 1, try_from(b) is Ok(v)
\* and v.into() = b.
C3_ReverseRoundTripEvenLength ==
    (/\ RawDecoded("CompleteListOf16BitServiceUuids")
     /\ C3_Pre(bytes)
     /\ Len(bytes) % 2 = 0) =>
        /\ IsOk(y)
        /\ cpc = "reencoded" => out = bytes

\* C3 witness: a record of two elements was decoded and encoded back.
C3_Witness ==
    /\ RawDecoded("CompleteListOf16BitServiceUuids")
    /\ bytes = <<5, 3, 1, 2, 2, 1>>
    /\ cpc = "reencoded"
    /\ Len(y.v.uuids) = 2
    /\ out = bytes

\* C4: for BroadcastCode, CompleteListOf16BitServiceUuids, Appearance and
\* ServiceData16BitUUID, every x.into(), x from new(...) or from a successful
\* decode, has out[0] = len(out) - 1 and out[1] = data_type().
C4_EncodeLengthInvariant ==
    typ \in {"BroadcastCode", "CompleteListOf16BitServiceUuids", "Appearance",
             "ServiceData16BitUUID"} =>
        /\ (cpc = "bytes" /\ IsOk(x)) => LengthInvariant(typ, bytes)
        /\ cpc = "reencoded" => LengthInvariant(typ, out)

\* the loop stands at a record that runs past the end of the buffer
Truncated ==
    /\ entry = "buffer"
    /\ index < Len(buffer)
    /\ index + 1 + buffer[index + 1] > Len(buffer)

\* C5: at a position pos with pos + 1 + buffer[pos] > len(buffer) the scanner
\* does not fault: it goes on to return a value whose last outcome is an error.
C5_TruncatedRecordIsAnError ==
    Truncated =>
        /\ spc \in {"loop", "done"}
        /\ spc = "done" =>
               /\ results # <<>>
               /\ results[Len(results)].variant = "DataTypeParseErr"

\* the buffer position at which record k of v starts
StartOf(v, k) == SeqSum([j \in 1..(k - 1) |-> Len(v[j])])

C7_EmptyInput ==
    /\ (entry = "buffer" /\ buffer = <<>>) =>
           /\ spc \in {"loop", "done"}
           /\ vec = <<>>
           /\ results = <<>>
    /\ (entry = "records" /\ vec = <<>>) =>
           /\ spc = "done"
           /\ results = <<>>

\* C7 witness: the scan of the empty buffer has returned.
C7_Witness ==
    /\ entry = "buffer"
    /\ buffer = <<>>
    /\ spc = "done"

\* C8: the scan of the concatenation of well-formed records rs cuts exactly
\* the records rs, in order, record i at the sum of the lengths of the records
\* before it and 1 + r[0] bytes long, and returns the outcomes that
\* DataTypeParseResults::from(rs) returns.
C8_ScannerPartition ==
    (entry = "buffer" /\ rs # <<>>) =>
        /\ spc # "panic"
        /\ Len(vec) <= Len(rs)
        /\ vec = SubSeq(rs, 1, Len(vec))
        /\ index = StartOf(rs, Len(vec) + 1)
        /\ \A k \in 1..Len(vec) :
               /\ Len(vec[k]) = 1 + rs[k][1]
               /\ vec[k] = SubSeq(buffer, StartOf(rs, k) + 1,
                                  StartOf(rs, k) + 1 + rs[k][1])
        /\ spc = "done" =>
               /\ vec = rs
               /\ Ok(results) = DataTypeParseResults_from_records(rs)

\* C8 witness: the scan of two concatenated records, the second one a
\* Broadcast_Code record, has returned two outcomes.
C8_Witness ==
    /\ entry = "buffer"
    /\ rs = <<<<2, 0, 1>>, <<5, 45, 1, 2, 1, 2>>>>
    /\ spc = "done"
    /\ Len(results) = 2

\* C9: DataTypeParseResult::from of a record of 0 or 1 byte returns
\* DataTypeParseErr("Invalid data size"); no codec runs, whatever the byte.
C9_ShortRecord ==
    (entry = "record" /\ Len(vec[1]) < 2) =>
        /\ spc = "done"
        /\ Len(results) = 1
        /\ results[1].variant = "DataTypeParseErr"
        /\ results[1].codec = "none"
        /\ results[1].result = Err("Invalid data size")

\* C9 witness: the one-byte record holding the Broadcast_Code tag value was
\* dispatched.
C9_Witness ==
    /\ entry = "record"
    /\ vec = <<<<45>>>>
    /\ spc = "done"

\* the tags DataTypeParseResult::from knows
RegisteredTags ==
    {AdvertisingInterval_data_type, AdvertisingIntervalLong_data_type,
     Appearance_data_type, BigInfo_data_type, BroadcastCode_data_type}

\* the message expected for the unregistered tags of the record samples
ExpectedUnknown(tag) ==
    CASE tag = 0 -> "Unknown data type :0"
      [] tag = 3 -> "Unknown data type :3"
      [] tag = 13 -> "Unknown data type :13"
      [] tag = 255 -> "Unknown data type :255"

\* C10: DataTypeParseResult::from of a record of at least 2 bytes whose byte 1
\* is no registered tag returns DataTypeParseErr("Unknown data type :<tag in
\* decimal>"), which differs from the invalid-size message; <<2, 0, 1>> gives
\* the message naming 0.
C10_UnknownTag ==
    (entry = "record" /\ Len(vec[1]) >= 2 /\ vec[1][2] \notin RegisteredTags) =>
        /\ spc = "done"
        /\ Len(results) = 1
        /\ results[1].variant = "DataTypeParseErr"
        /\ results[1].codec = "none"
        /\ results[1].result = Err(ExpectedUnknown(vec[1][2]))
        /\ results[1].result # Err("Invalid data size")

\* C10 witness: the 3-byte record with tag 0x00 was dispatched.
C10_Witness ==
    /\ entry = "record"
    /\ vec = <<<<2, 0, 1>>>>
    /\ spc = "done"
    /\ results[1].result = Err("Unknown data type :0")

\* the codecs of the tag -> codec table
TableCodecs ==
    {"AdvertisingInterval", "AdvertisingIntervalLong", "Appearance", "BigInfo",
     "BroadcastCode"}

\* data_type() of a codec of the table
TableTag(c) ==
    CASE c = "AdvertisingInterval" -> AdvertisingInterval_data_type
      [] c = "AdvertisingIntervalLong" -> AdvertisingIntervalLong_data_type
      [] c = "Appearance" -> Appearance_data_type
      [] c = "BigInfo" -> BigInfo_data_type
      [] c = "BroadcastCode" -> BroadcastCode_data_type

\* try_from of a codec of the table
TableTryFrom(c, r) ==
    CASE c = "AdvertisingInterval" -> AdvertisingInterval_try_from(r)
      [] c = "AdvertisingIntervalLong" -> AdvertisingIntervalLong_try_from(r)
      [] c = "Appearance" -> Appearance_try_from(r)
      [] c = "BigInfo" -> BigInfo_try_from(r)
      [] c = "BroadcastCode" -> BroadcastCode_try_from(r)

\* the codecs the table gives for the tag of record r
TableHits(r) == {c \in TableCodecs : TableTag(c) = r[2]}

\* C11: for every record of at least 2 bytes the cascade gives what the
\* lookup of record[1] in the tag -> codec table gives: the tag selects at
\* most one codec; when it selects codec c the outcome is the variant of c
\* wrapping exactly c's try_from(record), Ok or Err, and the dispatch faults
\* exactly when that try_from faults; two records with the same tag get the
\* same variant.
C11_DispatchIsTableLookup ==
    (entry = "record" /\ Len(vec[1]) >= 2) =>
        /\ Cardinality(TableHits(vec[1])) <= 1
        /\ \A c \in TableHits(vec[1]) :
               LET r == TableTryFrom(c, vec[1])
               IN  IF IsPanic(r)
                   THEN spc = "panic" /\ results = <<>>
                   ELSE /\ spc = "done"
                        /\ results = <<Outcome(c \o "Result", c, r)>>
        /\ TableHits(vec[1]) = {} =>
               /\ spc = "done"
               /\ Len(results) = 1
               /\ results[1].variant = "DataTypeParseErr"
        /\ spc = "done" =>
               \A r \in RecordSamples :
                   (Len(r) >= 2 /\ r[2] = vec[1][2]) =>
                       DataTypeParseResult_from(r).variant = results[1].variant

\* C11 witness: a Broadcast_Code record was dispatched and its outcome wraps
\* the Ok of BroadcastCode::try_from.
C11_Witness ==
    /\ entry = "record"
    /\ vec = <<<<5, 45, 1, 2, 1, 2>>>>
    /\ spc = "done"
    /\ results[1].variant = "BroadcastCodeResult"
    /\ IsOk(results[1].result)

\* C12: for every list rs of records DataTypeParseResults::from(rs) returns
\* results of exactly len(rs) elements, element i being
\* DataTypeParseResult::from(rs[i]): nothing filtered, merged or reordered.
C12_AggregationKeepsOrderAndCount ==
    entry = "records" =>
        /\ spc = "done"
        /\ Len(results) = Len(vec)
        /\ \A i \in 1..Len(vec) : results[i] = DataTypeParseResult_from(vec[i])

\* C13: the data_type() constants of the AD types are pairwise distinct: for
\* every data type value at most one is_<type> predicate is true (so no two
\* AD types, SecureSimplePairingRandomizerR192 and
\* SecureSimplePairingRandomizerR256 among them, own the same value).
C13_TagsAreUnique ==
    qpc = "asked" =>
        /\ Cardinality(matches) <= 1
        /\ \A t, u \in matches : TypeTag(t) = qtag /\ (t # u => TypeTag(t) # TypeTag(u))

\* C14: for every byte vector v, BroadcastCode::try_from(v),
\* CompleteListOf16BitServiceUuids::try_from(v) and
\* CompleteListOf128BitServiceUuids::try_from(v) return Ok or Err: no index
\* or slice leaves v or has its start above its end.
C14_FallibleDecodersNeverFault ==
    (/\ typ \in {"BroadcastCode", "CompleteListOf16BitServiceUuids",
                 "CompleteListOf128BitServiceUuids"}
     /\ cpc = "decoded") =>
        IsOk(y) \/ IsErr(y)

\* the bytes the fixed fields of an offset decoder span: length, tag and
\* the 16-bit appearance, the role byte, or the 16-bit UUID
FieldBytes(t) ==
    CASE t = "Appearance" -> 4
      [] t = "LeRole" -> 3
      [] t = "ServiceData16BitUUID" -> 4

\* C15: Appearance, LeRole and ServiceData16BitUUID decoding (data, offset)
\* with fewer bytes left after offset than the fields they read (offset at or
\* past the end included) yield a returned decode error, not a fault.
C15_OffsetDecodersReportShortInput ==
    (/\ typ \in {"Appearance", "LeRole", "ServiceData16BitUUID"}
     /\ cpc = "decoded"
     /\ Len(bytes) - offs < FieldBytes(typ)) =>
        IsErr(y)

\* the error the size check reports for a buffer of n bytes, n below 18
InvalidDataSizeOf(n) ==
    CASE n = 0 -> "Invalid data size :0" [] n = 1 -> "Invalid data size :1"
      [] n = 2 -> "Invalid data size :2" [] n = 3 -> "Invalid data size :3"
      [] n = 4 -> "Invalid data size :4" [] n = 5 -> "Invalid data size :5"
      [] n = 6 -> "Invalid data size :6" [] n = 7 -> "Invalid data size :7"
      [] n = 8 -> "Invalid data size :8" [] n = 9 -> "Invalid data size :9"
      [] n = 10 -> "Invalid data size :10" [] n = 11 -> "Invalid data size :11"
      [] n = 12 -> "Invalid data size :12" [] n = 13 -> "Invalid data size :13"
      [] n = 14 -> "Invalid data size :14" [] n = 15 -> "Invalid data size :15"
      [] n = 16 -> "Invalid data size :16" [] n = 17 -> "Invalid data size :17"

\* the minimum size N of C16
BoundaryN(t) ==
    CASE t = "BroadcastCode" -> 6
      [] t = "SecureSimplePairingRandomizerR192" -> 18

\* C16: with N = 6 for BroadcastCode and N = 18 for
\* SecureSimplePairingRandomizerR192, try_from of a buffer of n < N bytes
\* returns Err("Invalid data size :n"), n the byte count of the buffer, and
\* try_from of a buffer of exactly N bytes whose length byte is N - 1
\* returns Ok.
C16_BoundaryAcceptance ==
    (/\ typ \in {"BroadcastCode", "SecureSimplePairingRandomizerR192"}
     /\ cpc = "decoded") =>
        /\ Len(bytes) < BoundaryN(typ) => y = Err(InvalidDataSizeOf(Len(bytes)))
        /\ (Len(bytes) = BoundaryN(typ) /\ bytes[1] = BoundaryN(typ) - 1) => IsOk(y)

\* C16 witness: SecureSimplePairingRandomizerR192::try_from has refused a
\* buffer of 17 bytes, reporting 17.
C16_Witness ==
    /\ typ = "SecureSimplePairingRandomizerR192"
    /\ cpc = "decoded"
    /\ Len(bytes) = 17
    /\ y = Err("Invalid data size :17")

\* C17: for every 16-bit appearance a, category() is a >> 6 (bits 6..15, a
\* 10-bit value) and sub_category() is bits 0..5 of a, so that
\* category() * 64 + sub_category() = a; 0x1444 has category 0x051 and
\* sub-category 0x04.
C17_AppearanceBitFields ==
    (typ = "Appearance" /\ cpc = "read") =>
        LET a == x.v.appearance
        IN  /\ fields.category = a \div 64
            /\ fields.category \in 0..1023
            /\ fields.sub_category = a % 64
            /\ fields.category * 64 + fields.sub_category = a
            /\ a = 5188 => fields.category = 81 /\ fields.sub_category = 4

\* C17 witness: the accessors of Appearance::new(0x1444) were read.
C17_Witness ==
    /\ typ = "Appearance"
    /\ cpc = "read"
    /\ x.v.appearance = 5188
    /\ fields = [category |-> 81, sub_category |-> 4]

\* C18: the masks 0xFFE000, 0x001F00 and 0x0000FC do not overlap (each lies
\* whole between the bit positions 13, 8 and 2), and for every c = s | d | m,
\* s within the first mask, d within the second and m within the third,
\* ClassOfDevice::new(c) has major_service_classes() = s,
\* major_device_class() = d and minor_device_class() = m.
C18_ClassOfDeviceMasks ==
    /\ CLASS_OF_DEVICE_MAJOR_SERVICE_CLASSES_MASK = 2047 * 8192
    /\ CLASS_OF_DEVICE_MAJOR_DEVICE_CLASS_MASK = 31 * 256
    /\ CLASS_OF_DEVICE_MINOR_DEVICE_CLASS_MASK = 63 * 4
    /\ (/\ typ = "ClassOfDevice"
        /\ cpc = "read"
        /\ x.v.class_of_device < 16777216
        /\ x.v.class_of_device % 4 = 0) =>
           LET c == x.v.class_of_device
               s == (c \div 8192) * 8192
               d == ((c % 8192) \div 256) * 256
               m == c % 256
           IN  /\ fields.major_service_classes = s
               /\ fields.major_device_class = d
               /\ fields.minor_device_class = m
               /\ s + d + m = c

\* C18 witness: the accessors of ClassOfDevice::new(0x800000 | 0x000100 |
\* 0x000004) were read.
C18_Witness ==
    /\ typ = "ClassOfDevice"
    /\ cpc = "read"
    /\ x.v.class_of_device = 8388608 + 256 + 4
    /\ fields = [major_service_classes |-> 8388608, major_device_class |-> 256,
                 minor_device_class |-> 4]

\* the Base UUID with the 16-bit value v in bits 96..111
\* (0000vvvv-0000-1000-8000-00805F9B34FB)
Uuid16(v) == <<0, 0, v \div 256, v % 256>> \o SubSeq(BASE_UUID, 5, 16)

\* C19 as stated: the record with tag 0x03 and payload [0x01, 0x02, 0x03,
\* 0x04] decodes to exactly two UUIDs, the Base UUID with 0x0001 and with
\* 0x0002 as low 16 bits.
C19_ListExample0001And0002 ==
    (/\ RawDecoded("CompleteListOf16BitServiceUuids")
     /\ bytes = <<5, 3, 1, 2, 3, 4>>) =>
        /\ IsOk(y)
        /\ y.v.uuids = <<Uuid16(1), Uuid16(2)>>

\* C19 amended: that record decodes to exactly two UUIDs, the Base UUID with
\* 0x0201 and with 0x0403 as low 16 bits (each 2-byte window read least
\* significant byte first), every other bit being that of the Base UUID.
C19_ListExample0201And0403 ==
    (/\ RawDecoded("CompleteListOf16BitServiceUuids")
     /\ bytes = <<5, 3, 1, 2, 3, 4>>) =>
        /\ IsOk(y)
        /\ Len(y.v.uuids) = 2
        /\ y.v.uuids[1] = <<0, 0, 2, 1, 0, 0, 16, 0, 128, 0, 0, 128, 95, 155, 52, 251>>
        /\ y.v.uuids[2] = <<0, 0, 4, 3, 0, 0, 16, 0, 128, 0, 0, 128, 95, 155, 52, 251>>
        /\ y.v.uuids = <<Uuid16(513), Uuid16(1027)>>

\* C19 witness: the record of the example was decoded to two UUIDs.
C19_Witness ==
    /\ RawDecoded("CompleteListOf16BitServiceUuids")
    /\ bytes = <<5, 3, 1, 2, 3, 4>>
    /\ IsOk(y)
    /\ Len(y.v.uuids) = 2

\* the element width of a UUID list
ElementWidth(t) ==
    CASE t = "CompleteListOf16BitServiceUuids" -> 2
      [] t = "CompleteListOf128BitServiceUuids" -> 16

\* C20: decoding a UUID list of element width w whose declared length
\* L = record[0] has (L - 1) mod w # 0 returns an error: the record is never
\* accepted with its trailing partial element dropped.
C20_ElementWidthValidation ==
    (/\ typ \in {"CompleteListOf16BitServiceUuids",
                 "CompleteListOf128BitServiceUuids"}
     /\ cpc = "decoded"
     /\ Len(bytes) >= 1
     /\ (bytes[1] - 1) % ElementWidth(typ) # 0) =>
        ~IsOk(y)

-----------------------------------------------------------------------------
(* Short-UUID encoders.                                                    *)

ShortUuidTypes ==
    {"CompleteListOf16BitServiceUuids", "ServiceData16BitUUID",
     "ListOf32BitServiceSolicitationUUIDs"}

\* the width in bytes of the short form of a UUID of type t
ShortWidth(t) ==
    IF t = "ListOf32BitServiceSolicitationUUIDs" THEN 4 ELSE 2

\* the w least significant bytes of the first field of u, lowest byte first
LowLeBytes(u, w) == [i \in 1..w |-> u[5 - i]]

\* the UUIDs of a value of type t, in order, and the bytes that follow them
UuidsOf(t, v) == IF t = "ServiceData16BitUUID" THEN <<v.uuid>> ELSE v.uuids

TailOf(t, v) ==
    IF t = "ServiceData16BitUUID" THEN v.additional_service_data ELSE <<>>

\* C21: a short-UUID encoder (w = 2 for CompleteListOf16BitServiceUuids and
\* ServiceData16BitUUID, w = 4 for ListOf32BitServiceSolicitationUUIDs) emits
\* for each UUID exactly its first w little-endian bytes, in list order, and
\* two values whose UUIDs agree on those bytes encode to the same record.
C21_ShortUuidEncodeDiscardsHighBytes ==
    (typ \in ShortUuidTypes /\ cpc = "bytes" /\ IsOk(x)) =>
        LET w == ShortWidth(typ)
            us == UuidsOf(typ, x.v)
        IN  /\ bytes = <<x.v.length, TypeTag(typ)>>
                          \o FlatMap([k \in 1..Len(us) |-> LowLeBytes(us[k], w)], w)
                          \o TailOf(typ, x.v)
            /\ \A a \in NewArgs(typ) : \A checks \in BOOLEAN :
                   LET x2 == Construct(typ, a, checks)
                   IN  (/\ IsOk(x2)
                        /\ Len(UuidsOf(typ, x2.v)) = Len(us)
                        /\ TailOf(typ, x2.v) = TailOf(typ, x.v)
                        /\ \A k \in 1..Len(us) :
                               LowLeBytes(UuidsOf(typ, x2.v)[k], w) = LowLeBytes(us[k], w))
                       => Encode(typ, x2.v) = bytes

\* a 32-bit list of one UUID that is not built on the Base UUID, encoded
C21_Witness ==
    /\ typ = "ListOf32BitServiceSolicitationUUIDs"
    /\ cpc = "bytes"
    /\ IsOk(x)
    /\ x.v.uuids = <<(<<0, 0, 2, 1, 9, 9, 9, 9, 9, 9, 9, 9, 9, 9, 9, 9>>)>>
    /\ bytes = <<5, 31, 1, 2, 0, 0>>

-----------------------------------------------------------------------------
(* Decoders and the bytes behind the declared length.                      *)

\* the decode under way: at offs for the offset decoders, the whole vector
\* otherwise
DecodeOf(t, b, o) == IF t \in OffsetTypes THEN DecodeAt(t, b, o) ELSE Decode(t, b)

\* b holds the length byte at offset o and the bytes it declares
HoldsRecord(b, o) == Len(b) > o /\ Len(b) >= o + 1 + b[o + 1]

\* a and b agree on the index range [o, o + 1 + L), L the byte of a at o
AgreeOnRecord(a, b, o) ==
    /\ HoldsRecord(a, o)
    /\ Len(b) >= o + 1 + a[o + 1]
    /\ SubSeq(a, o + 1, o + 1 + a[o + 1]) = SubSeq(b, o + 1, o + 1 + a[o + 1])

\* C22: SecureSimplePairingRandomizerR192::try_from and
\* ClassOfDevice::from_with_offset read nothing past the declared length: two
\* buffers that agree on [offset, offset + 1 + L) decode to the same result.
C22_DecodeIgnoresBytesPastLength ==
    (/\ typ \in {"SecureSimplePairingRandomizerR192", "ClassOfDevice"}
     /\ cpc = "decoded") =>
        \A b2 \in RawRecords(typ) :
            AgreeOnRecord(bytes, b2, offs) => DecodeOf(typ, b2, offs) = y

-----------------------------------------------------------------------------
(* Decoders and the caller's buffer.                                       *)

-----------------------------------------------------------------------------
(* Concurrent dispatch.                                                    *)

\* C24: when several workers each dispatch their own record with
\* DataTypeParseResult::from, under every interleaving of their steps each
\* worker obtains the outcome the sequential call has on its record, and a
\* step of one dispatch leaves the record, the data_type and the outcome of
\* every other dispatch as they were.
C24_WorkersGetSequentialOutcome ==
    /\ [](\A w \in Workers :
              wpc[w] = "done" => wout[w] = DataTypeParseResult_from(wrec[w]))
    /\ [][\A w \in Workers :
              (wpc[w] # "idle" /\ wpc'[w] = wpc[w]) =>
                  <<wrec[w], wtag[w], wout[w]>>' = <<wrec[w], wtag[w], wout[w]>>]_vars

\* two workers done, one with a Broadcast_Code record and one with an
\* Appearance record
C24_Witness ==
    /\ \A w \in Workers : wpc[w] = "done"
    /\ wrec[1] = <<5, 45, 1, 2, 1, 2>>
    /\ wrec[2] = <<3, 25, 68, 20>>
    /\ wout[1].variant = "BroadcastCodeResult"
    /\ wout[2].variant = "AppearanceResult"

-----------------------------------------------------------------------------
(* Termination of the scanning loop.                                       *)

RECURSIVE InBoundsFrom(_, _)
\* from position i on, every record the length bytes of b declare lies in b
InBoundsFrom(b, i) ==
    IF i >= Len(b) THEN TRUE
    ELSE i + 1 + b[i + 1] <= Len(b) /\ InBoundsFrom(b, i + 1 + b[i + 1])

\* an iteration of the loop has been taken
Iteration == spc = "loop" /\ spc' = "loop" /\ <<index, vec>>' # <<index, vec>>

\* C25: on every finite buffer on which no slice is out of bounds the
\* scanning loop terminates: the index starts at 0, each iteration adds
\* 1 + buffer[index] >= 1 to it and pushes exactly one record, and the loop
\* is left at the first index that is >= len(buffer).
C25_ScanTerminates ==
    /\ []((spc = "loop" /\ vec = <<>>) => index = 0)
    /\ [][Iteration =>
             /\ index < Len(buffer)
             /\ index' = index + 1 + buffer[index + 1]
             /\ index' > index
             /\ Len(vec') = Len(vec) + 1]_vars
    /\ (spc = "loop" /\ InBoundsFrom(buffer, 0))
           ~> (spc # "loop" /\ index >= Len(buffer))

\* a buffer of two records scanned to its end in two iterations
C25_Witness ==
    /\ spc = "done"
    /\ buffer = <<1, 45, 0>>
    /\ vec = <<(<<1, 45>>), (<<0>>)>>
    /\ index = 3

-----------------------------------------------------------------------------
(* UUID list decoders: count and order.                                    *)

ListTypes ==
    {"CompleteListOf16BitServiceUuids", "ListOf32BitServiceSolicitationUUIDs",
     "CompleteListOf128BitServiceUuids"}

\* the width in bytes of one element of a list of type t
ListWidth(t) ==
    CASE t = "CompleteListOf16BitServiceUuids" -> 2
      [] t = "ListOf32BitServiceSolicitationUUIDs" -> 4
      [] t = "CompleteListOf128BitServiceUuids" -> 16

\* the UUID an element e of 2, 4 or 16 bytes stands for: the Base UUID with
\* its low 16 or 32 bits replaced by e read least significant byte first, or
\* the 128-bit number e read least significant byte first
ElementUuid(e) ==
    CASE Len(e) = 2 -> <<0, 0, e[2], e[1]>> \o SubSeq(BASE_UUID, 5, 16)
      [] Len(e) = 4 -> <<e[4], e[3], e[2], e[1]>> \o SubSeq(BASE_UUID, 5, 16)
      [] Len(e) = 16 -> [i \in 1..16 |-> e[17 - i]]

\* C26: a successfully decoded UUID list (w = 2, 4, 16) whose length byte is
\* L holds exactly floor((L - 1) / w) UUIDs, and UUID k is built from payload
\* bytes [k * w, (k + 1) * w) only, in payload order.
C26_ListCountAndOrder ==
    (typ \in ListTypes /\ cpc = "decoded" /\ IsOk(y)) =>
        LET w == ListWidth(typ)
            L == bytes[offs + 1]
        IN  /\ y.v.length = L
            /\ Len(y.v.uuids) = (L - 1) \div w
            /\ \A k \in 1..Len(y.v.uuids) :
                   y.v.uuids[k] =
                       ElementUuid(SubSeq(bytes, offs + 2 + (k - 1) * w + 1,
                                          offs + 2 + k * w))

\* a 32-bit list of two elements and one byte left over
C26_Witness ==
    /\ typ = "ListOf32BitServiceSolicitationUUIDs"
    /\ cpc = "decoded"
    /\ bytes = <<10, 31, 1, 2, 3, 4, 5, 6, 7, 8, 9>>
    /\ IsOk(y)
    /\ Len(y.v.uuids) = 2
    /\ y.v.uuids[2] = <<8, 7, 6, 5>> \o SubSeq(BASE_UUID, 5, 16)

-----------------------------------------------------------------------------
(* Service data decoders.                                                  *)

\* the width in bytes of the UUID prefix of a service data record of type t
PrefixWidth(t) == IF t = "ServiceData32BitUUID" THEN 4 ELSE 2

\* C27: for ServiceData16BitUUID (p = 2) and ServiceData32BitUUID (p = 4), a
\* record with length byte L >= 1 + p that lies entirely in the buffer decodes
\* to additional_service_data = record bytes [2 + p, 1 + L), which are
\* L - 1 - p bytes, and to uuid = the Base UUID with its first p little-endian
\* bytes replaced by record bytes [2, 2 + p).
C27_ServiceDataSplit ==
    (/\ typ \in {"ServiceData16BitUUID", "ServiceData32BitUUID"}
     /\ cpc = "decoded"
     /\ HoldsRecord(bytes, offs)
     /\ bytes[offs + 1] >= 1 + PrefixWidth(typ)) =>
        LET p == PrefixWidth(typ)
            L == bytes[offs + 1]
        IN  /\ IsOk(y)
            /\ y.v.length = L
            /\ y.v.additional_service_data = SubSeq(bytes, offs + 2 + p + 1, offs + 1 + L)
            /\ Len(y.v.additional_service_data) = L - 1 - p
            /\ y.v.uuid = ElementUuid(SubSeq(bytes, offs + 3, offs + 2 + p))

\* a 32-bit service data record with two bytes of service data, decoded at
\* offset 1
C27_Witness ==
    /\ typ = "ServiceData32BitUUID"
    /\ cpc = "decoded"
    /\ offs = 1
    /\ bytes = <<7, 7, 32, 1, 2, 3, 4, 1, 2>>
    /\ IsOk(y)
    /\ y.v.additional_service_data = <<1, 2>>
    /\ y.v.uuid = <<4, 3, 2, 1>> \o SubSeq(BASE_UUID, 5, 16)

-----------------------------------------------------------------------------
(* Constructors and the u8 length.                                         *)

\* the number of payload bytes into() emits for the value v of type t
PayloadBytes(t, v) ==
    CASE t = "BroadcastCode" -> Len(v.broadcast_code)
      [] t = "CompleteListOf16BitServiceUuids" -> 2 * Len(v.uuids)
      [] t = "CompleteListOf128BitServiceUuids" -> 16 * Len(v.uuids)
      [] t = "ServiceData16BitUUID" -> 2 + Len(v.additional_service_data)

\* C28: for every input, new(...) stores in length the integer 1 + the number
\* of payload bytes (1 + len(code), 2n + 1, 16n + 1, 3 + len(tail)), with no
\* wrap-around modulo 256.
C28_ConstructorLength ==
    (/\ typ \in {"BroadcastCode", "CompleteListOf16BitServiceUuids",
                 "CompleteListOf128BitServiceUuids", "ServiceData16BitUUID"}
     /\ cpc = "new") =>
        /\ IsOk(x)
        /\ x.v.length = 1 + PayloadBytes(typ, x.v)

-----------------------------------------------------------------------------
(* Decoding at an offset.                                                  *)

ShiftTypes == {"Appearance", "ClassOfDevice", "ServiceData16BitUUID"}

\* r is a whole record of type t: its length byte counts the bytes behind it,
\* and they hold the fields of t
WellFormedFor(t, r) ==
    /\ WellFormedRecord(r)
    /\ CASE t = "Appearance" -> r[1] = 3
         [] t = "ClassOfDevice" -> r[1] = 4
         [] t = "ServiceData16BitUUID" -> r[1] >= 3

\* the prefixes a record may stand behind
Prefixes == SeqsUpTo({0, 7, 8}, MaxOffset)

\* C29: for Appearance, ClassOfDevice and ServiceData16BitUUID, every
\* well-formed record r and every byte sequence p, from_with_offset(p ++ r,
\* len(p)) returns the fields from(r) returns; the decoded length is the byte
\* at index offset, and the bytes before offset have no influence.
C29_OffsetShift ==
    (/\ typ \in ShiftTypes
     /\ cpc = "decoded"
     /\ offs <= Len(bytes)
     /\ WellFormedFor(typ, SubSeq(bytes, offs + 1, Len(bytes)))) =>
        LET r == SubSeq(bytes, offs + 1, Len(bytes))
        IN  /\ IsOk(y)
            /\ y = Decode(typ, r)
            /\ y.v.length = bytes[offs + 1]
            /\ \A p2 \in Prefixes : DecodeAt(typ, p2 \o r, Len(p2)) = y

\* an Appearance record decoded at offset 2
C29_Witness ==
    /\ typ = "Appearance"
    /\ cpc = "decoded"
    /\ offs = 2
    /\ bytes = <<7, 8, 3, 25, 68, 20>>
    /\ y = Ok([length |-> 3, appearance |-> 5188])

\* C30: for every well-formed Appearance record r (length byte 3, 4 bytes)
\* and every byte sequence s, empty or not, Appearance::from_with_offset(r ++
\* s, 0) returns the value Appearance::from(r) returns and does not fault.
C30_AppearanceTrailingBytes ==
    (/\ typ = "Appearance"
     /\ cpc = "decoded"
     /\ offs = 0
     /\ Len(bytes) >= 4
     /\ bytes[1] = 3
     /\ bytes[2] = Appearance_data_type) =>
        /\ ~IsPanic(y)
        /\ y = Appearance_from(SubSeq(bytes, 1, 4))

=============================================================================
